---- MODULE Spec2Model ----
(***************************************************************************)
(* forge-armory: the backend connection registry (BackendManager), the     *)
(* connections it owns (BackendConnection) and the persistence it writes   *)
(* through the repositories (backends, tools, tool_calls).                 *)
(*                                                                         *)
(* The program is asyncio code: everything between two suspending awaits   *)
(* runs as one step.  An await of upstream I/O or of the database is a     *)
(* suspension point; an await of a coroutine that never suspends           *)
(* (BackendConnection.disconnect, BackendManager.remove_backend) is not.   *)
(* One database session block is one transaction, taken as one step.       *)
(***************************************************************************)
EXTENDS Integers, Sequences, FiniteSets, TLC

\* ------------------------------------------------------------------ bounds
MaxOps == 2          \* manager/admin operations begun while serving
MaxConns == 3        \* BackendConnection objects ever constructed
MaxToolId == 4       \* tool rows ever inserted (ids are fresh per insert)
MaxTools == 2        \* length of an upstream tool list
MaxRequests == 1     \* requests received by the dispatcher

None == "None"

Tasks == {"t1", "t2"}
TaskOrder == <<"t1", "t2">>
BackendIds == {1, 2}
Names == <<"a", "b">>           \* Backend.name of backend i; unique, ordered
ToolNames == {"x", "y"}
Urls == {None, "http://u"}
Prefixes == {None, "a"}
Arguments == {"args"}
Results == {"res"}
ErrorTexts == {"boom"}

VARIABLES
    backends,      \* table backends: id -> row
    tools,         \* table tools: set of rows
    calls,         \* table tool_calls, in insertion order
    nextToolId,    \* fresh primary keys of tools
    connections,   \* BackendManager._connections: name -> connection object
    conns,         \* the BackendConnection objects constructed so far
    task,          \* the request handlers: position and locals of each
    main,          \* the lifespan coroutine: initialize, serve, shutdown
    log,           \* what initialize() logged
    nextRid        \* operations begun so far

vars == <<backends, tools, calls, nextToolId, connections, conns, task, main, log, nextRid>>

\* ------------------------------------------------------------ pure helpers
Falsy(v) == v = None \/ v = ""

effective_prefix(backend) == IF Falsy(backend.prefix) THEN backend.name ELSE backend.prefix

PrefixedName(prefix, name) == prefix \o "__" \o name

Range(s) == {s[i] : i \in DOMAIN s}

SeqsUpTo(S, n) == UNION {[1..k -> S] : k \in 0..n}

ToolLists == SeqsUpTo(ToolNames, MaxTools)

CallNames == {PrefixedName(p, n) : p \in Range(Names), n \in ToolNames}

BackendNames == Range(Names)

connected_backends == DOMAIN connections

\* BackendRepository.list_all(enabled_only): rows ordered by name
list_all(enabled_only) ==
    LET ids == [i \in 1..Len(Names) |-> CHOOSE b \in BackendIds : backends[b].name = Names[i]]
        rows == [i \in 1..Len(Names) |-> backends[ids[i]]]
    IN SelectSeq(rows, LAMBDA r : (~enabled_only) \/ r.enabled)

\* a scalar_one_or_none() query is the set of rows it matched: empty for None
get_by_name(name) == {backends[b] : b \in {x \in BackendIds : backends[x].name = name}}

get_by_id(id) == {backends[b] : b \in {x \in BackendIds : x = id}}

get_by_prefixed_name(pn) == {tl \in tools : tl.prefixed_name = pn}

One(rows) == CHOOSE r \in rows : TRUE

list_by_backend(id) == {tl \in tools : tl.backend_id = id}

\* -------------------------------------------------------------- the tables
\* uuid4 primary keys: the k-th row inserted
ToolId(k) == "tool" \o ToString(k)

\* ToolRepository.refresh_backend_tools: the rows inserted for tool list U
NewTools(backend, U) ==
    {[id |-> ToolId(nextToolId + i - 1),
      backend_id |-> backend.id,
      name |-> U[i],
      prefixed_name |-> PrefixedName(effective_prefix(backend), U[i])] : i \in DOMAIN U}

\* the unique index ix_tools_prefixed_name accepts the rows left plus the rows inserted
RefreshAccepted(backend, U) ==
    LET kept == {tl \in tools : tl.backend_id # backend.id}
    IN /\ \A i, j \in DOMAIN U : i # j => U[i] # U[j]
       /\ \A i \in DOMAIN U :
            \A tl \in kept : tl.prefixed_name # PrefixedName(effective_prefix(backend), U[i])

\* a refresh that inserts without the DELETE of line 202
refresh_without_delete(backend, U) == tools \cup NewTools(backend, U)

refresh_backend_tools(backend, U) ==
    {tl \in tools : tl.backend_id # backend.id} \cup NewTools(backend, U)

\* a foreign key declared ondelete="CASCADE": the calls of a deleted tool go with it
CascadeDeleted(history, kept) ==
    SelectSeq(history,
        LAMBDA row : row.tool_id = None \/ row.tool_id \in {tl.id : tl \in kept})

\* ForeignKey("tools.id", ondelete="SET NULL") on the rows of tool_calls
SetNullDeleted(history, kept) ==
    [i \in DOMAIN history |->
        IF history[i].tool_id = None \/ history[i].tool_id \in {tl.id : tl \in kept}
        THEN history[i]
        ELSE [history[i] EXCEPT !.tool_id = None]]

\* --------------------------------------------------------------- the state
Idle == [op |-> "none", pc |-> "idle", rid |-> 0]

\* ------------------------------------------------- the JSON-RPC envelope
\* dict.get(key, default)
Get(obj, key, default) == IF key \in DOMAIN obj THEN obj[key] ELSE default

\* a JSON value: an object with its members, or a value of another JSON type
Object(obj) == [json |-> "object", obj |-> obj]

EmptyObject == Object(<<>>)

\* JSONResponse({"jsonrpc": "2.0", "error": {"code", "message"}, "id"}, status_code)
ErrorResponse(code, message, id, status) ==
    [status |-> status, error |-> [code |-> code, message |-> message], id |-> id]

\* JSONResponse({"jsonrpc": "2.0", "result", "id"}): status 200
ResultResponse(result, id) == [status |-> 200, result |-> result, id |-> id]

\* str(e) of the exceptions call_tool raises, as the parts of the f-string
Str(l, kind) ==
    IF kind = "ToolNotFoundError" THEN <<"Tool ", l.prefixed_name, " not found">>
    ELSE IF kind = "BackendNotFoundError" /\ l.backend_name = None
    THEN <<"Backend for tool ", l.prefixed_name, " not found">>
    ELSE IF kind = "BackendNotFoundError" THEN <<"Backend ", l.backend_name, " not connected">>
    ELSE IF kind = "ToolCallError" THEN <<"Tool call failed: ", l.error_message>>
    ELSE <<kind>>

\* the subclasses of Exception among the outcomes; CancelledError is a BaseException
Exceptions ==
    {"ToolNotFoundError", "BackendNotFoundError", "ToolCallError", "IntegrityError",
     "AttributeError"}

\* MCPGateway._format_tool_result for a str result
format_tool_result(result) == [content |-> <<[type |-> "text", text |-> result]>>]

\* server.py lines 79-90 (129-140): what the dispatcher makes of the outcome of
\* _handle_call_tool; an outcome that is no Exception leaves the handler as it is
Reply(l, kind) ==
    LET request_id == Get(l.request.body.obj, "id", None)
    IN IF kind = "ok" THEN ResultResponse(format_tool_result(l.result), request_id)
       ELSE IF kind \in Exceptions THEN ErrorResponse(-32603, Str(l, kind), request_id, 500)
       ELSE [raised |-> kind]

\* the locals of a handler that the properties below read once it has finished
Kept ==
    {"op", "rid", "conn", "exc", "backend_name", "tools", "name", "result", "request",
     "response", "route", "warned"}

\* the locals an exception's message is made of, read by the dispatcher's caller
Raised == {"prefixed_name", "error_message"}

\* the frame of a handler that has returned or raised `kind`; a handler entered
\* through the dispatcher ends with the dispatcher's response, an add_backend called
\* by the enable route has its BackendConnectionError caught and logged by the route
Returned(l, kind) ==
    LET caught == "route" \in DOMAIN l /\ kind = "BackendConnectionError"
        m == IF "request" \in DOMAIN l THEN [l EXCEPT !.response = Reply(l, kind)]
             ELSE IF caught THEN [l EXCEPT !.warned = TRUE]
             ELSE l
        kept == IF "request" \in DOMAIN l THEN Kept \cup Raised ELSE Kept
    IN [f \in ((DOMAIN m) \cap kept) \cup {"pc", "kind"} |->
            IF f = "pc" THEN "done"
            ELSE IF f = "kind" THEN (IF caught THEN "ok" ELSE kind)
            ELSE m[f]]

Free(t) == task[t].pc \in {"idle", "done"}

\* the handlers are interchangeable: a new request goes to the first free one
Accepts(t) ==
    /\ Free(t)
    /\ \A i, j \in DOMAIN TaskOrder : (i < j /\ TaskOrder[j] = t) => ~Free(TaskOrder[i])

Serving == main.pc = "serving"

InitBackends ==
    {f \in [BackendIds -> [id : BackendIds, name : BackendNames, url : Urls,
                           enabled : BOOLEAN, prefix : Prefixes, mount_enabled : BOOLEAN]] :
        /\ \A b \in BackendIds : f[b].id = b /\ f[b].name = Names[b]
        /\ f[1].url # None /\ f[1].enabled
        /\ \A b \in BackendIds : f[b].prefix = None /\ f[b].mount_enabled}

\* the tool catalog a previous run of the server left in the database
InitTools ==
    {{[id |-> ToolId(1), backend_id |-> 1, name |-> "x",
           prefixed_name |-> PrefixedName(effective_prefix([name |-> Names[1], prefix |-> None]), "x")]}}

Init ==
    /\ backends \in InitBackends
    /\ tools \in InitTools
    /\ calls = <<>>
    /\ nextToolId = Cardinality(tools) + 1
    /\ connections = <<>>
    /\ conns = <<>>
    /\ task = [t \in Tasks |-> Idle]
    /\ main = [pc |-> "init_load", queue |-> <<>>, conn |-> None]
    /\ log = <<>>
    /\ nextRid = 0

\* ------------------------------------------------- the connection objects
Allocated == Cardinality(DOMAIN conns)

\* the identity of the next BackendConnection object constructed
NextConn == "conn" \o ToString(Allocated + 1)

\* BackendConnection(backend), then connect() up to the ping (lines 42-45)
NewConnection(backend) == [backend |-> backend, client |-> ~Falsy(backend.url)]

Constructed(backend) == conns @@ (NextConn :> NewConnection(backend))

\* self._connections[backend.name] = conn
Registered(name, c) == (name :> c) @@ connections

\* time.perf_counter() - start_time at line 231, in microseconds
Elapsed == {0, 1500}

\* latency_ms = int((time.perf_counter() - start_time) * 1000)
LatencyMs(elapsed) == elapsed \div 1000

\* ------------------------------------------------- BackendManager.initialize
InitLoad ==
    /\ main.pc = "init_load"
    /\ main' = [main EXCEPT !.pc = "init_next", !.queue = list_all(TRUE)]
    /\ UNCHANGED <<backends, tools, calls, nextToolId, connections, conns, task, log, nextRid>>

\* BackendConnection(backend), then connect() up to the ping
InitConnect ==
    /\ main.pc = "init_next"
    /\ main.queue # <<>>
    /\ Allocated < MaxConns
    /\ LET backend == Head(main.queue)
       IN /\ conns' = Constructed(backend)
          /\ IF Falsy(backend.url)
             THEN /\ log' = Append(log, <<"failed", backend.name>>)
                  /\ main' = [main EXCEPT !.queue = Tail(main.queue)]
             ELSE /\ log' = log
                  /\ main' = [main EXCEPT !.pc = "init_ping", !.conn = NextConn]
    /\ UNCHANGED <<backends, tools, calls, nextToolId, connections, task, nextRid>>

\* an initialize() whose loop lets the connect failure escape: the rest is skipped
InitPingAborts ==
    /\ main.pc = "init_ping"
    /\ LET c == main.conn
           name == conns[c].backend.name
       IN \E ok \in BOOLEAN :
            IF ok
            THEN /\ connections' = Registered(name, c)
                 /\ conns' = conns
                 /\ log' = Append(log, <<"connected", name>>)
                 /\ main' = [main EXCEPT !.pc = "init_next", !.queue = Tail(main.queue), !.conn = None]
            ELSE /\ connections' = connections
                 /\ conns' = [conns EXCEPT ![c].client = FALSE]
                 /\ log' = Append(log, <<"failed", name>>)
                 /\ main' = [main EXCEPT !.pc = "init_next", !.queue = <<>>, !.conn = None]
    /\ UNCHANGED <<backends, tools, calls, nextToolId, task, nextRid>>

InitPing ==
    /\ main.pc = "init_ping"
    /\ LET c == main.conn
           name == conns[c].backend.name
       IN \E ok \in BOOLEAN :
            IF ok
            THEN /\ connections' = Registered(name, c)
                 /\ conns' = conns
                 /\ log' = Append(log, <<"connected", name>>)
            ELSE /\ connections' = connections
                 /\ conns' = [conns EXCEPT ![c].client = FALSE]
                 /\ log' = Append(log, <<"failed", name>>)
    /\ main' = [main EXCEPT !.pc = "init_next", !.queue = Tail(main.queue), !.conn = None]
    /\ UNCHANGED <<backends, tools, calls, nextToolId, task, nextRid>>

InitDone ==
    /\ main.pc = "init_next"
    /\ main.queue = <<>>
    /\ main' = [main EXCEPT !.pc = "serving"]
    /\ UNCHANGED <<backends, tools, calls, nextToolId, connections, conns, task, log, nextRid>>

\* ------------------------------------------------- BackendManager.call_tool
\* the locals of call_tool(prefixed_name, arguments) as it enters line 195
CallFrame(rid, pn, args) ==
    [op |-> "call_tool", pc |-> "call_lookup", rid |-> rid,
     prefixed_name |-> pn, arguments |-> args,
     backend_name |-> None, original_tool_name |-> None, tool_id |-> None,
     conn |-> None, success |-> TRUE, error_message |-> None, result |-> None,
     latency_ms |-> None, exc |-> None, kind |-> None]

BeginCall(t, pn, args) ==
    /\ Serving /\ Accepts(t) /\ nextRid < MaxOps
    /\ nextRid' = nextRid + 1
    /\ task' = [task EXCEPT ![t] = CallFrame(nextRid + 1, pn, args)]
    /\ UNCHANGED <<backends, tools, calls, nextToolId, connections, conns, main, log>>

\* lines 195-210: the lookup session
\* a lookup that reports a missing tool as a missing backend
LookupOutcomeSwapped(pn) ==
    LET tool == get_by_prefixed_name(pn)
    IN IF tool = {} THEN [kind |-> "BackendNotFoundError"]
       ELSE [kind |-> None, backend_name |-> One(get_by_id(One(tool).backend_id)).name,
             original_tool_name |-> One(tool).name, tool_id |-> One(tool).id]

LookupOutcome(pn) ==
    LET tool == get_by_prefixed_name(pn)
    IN IF tool = {} THEN [kind |-> "ToolNotFoundError"]
       ELSE IF get_by_id(One(tool).backend_id) = {} THEN [kind |-> "BackendNotFoundError"]
       ELSE [kind |-> None, backend_name |-> One(get_by_id(One(tool).backend_id)).name,
             original_tool_name |-> One(tool).name, tool_id |-> One(tool).id]

CallLookup(t) ==
    /\ task[t].pc = "call_lookup"
    /\ LET o == LookupOutcome(task[t].prefixed_name)
       IN task' = [task EXCEPT ![t] =
            IF o.kind # None
            THEN Returned(@, o.kind)
            ELSE [@ EXCEPT !.pc = "call_check", !.backend_name = o.backend_name,
                           !.original_tool_name = o.original_tool_name,
                           !.tool_id = o.tool_id]]
    /\ UNCHANGED <<backends, tools, calls, nextToolId, connections, conns, main, log, nextRid>>

\* lines 231-249: the fields of the ToolCall appended by the finalizer
ToolCallRow(l) ==
    [tool_id |-> l.tool_id, backend_name |-> l.backend_name,
     tool_name |-> l.original_tool_name, arguments |-> l.arguments,
     success |-> l.success, error_message |-> l.error_message,
     latency_ms |-> l.latency_ms, request_id |-> l.rid]

\* a tool_calls table without the foreign key
CreateUnchecked(row) == TRUE

\* ToolCallRepository.create: the foreign key tool_calls.tool_id -> tools.id
CreateAccepted(row) == row.tool_id = None \/ \E tl \in tools : tl.id = row.tool_id

\* lines 233-252: the finalizer's session, then the pending exception or the result
Record(t, l) ==
    IF CreateAccepted(ToolCallRow(l))
    THEN /\ calls' = Append(calls, ToolCallRow(l))
         /\ task' = [task EXCEPT ![t] =
                Returned(l, IF l.exc = None THEN "ok" ELSE l.exc)]
    ELSE /\ calls' = calls
         /\ task' = [task EXCEPT ![t] = Returned(l, "IntegrityError")]

\* a connection check placed where the finalizer records the miss as a failed call
CallCheckRecordsMiss(t) ==
    /\ task[t].pc = "call_check"
    /\ LET l == task[t]
           c == connections[l.backend_name]
       IN IF l.backend_name \notin DOMAIN connections
          THEN /\ task' = [task EXCEPT ![t] = Returned(@, "BackendNotFoundError")]
               /\ calls' = Append(calls, ToolCallRow([l EXCEPT !.success = FALSE, !.latency_ms = LatencyMs(0)]))
          ELSE /\ task' = [task EXCEPT ![t] = [@ EXCEPT !.pc = "call_inflight", !.conn = c]]
               /\ calls' = calls
    /\ UNCHANGED <<backends, tools, nextToolId, connections, conns, main, log, nextRid>>

\* a router that reconnects a backend it finds absent from the map
CallCheckReconnects(t) ==
    /\ task[t].pc = "call_check"
    /\ LET l == task[t]
       IN IF l.backend_name \notin DOMAIN connections
          THEN /\ Allocated < MaxConns
               /\ conns' = Constructed(One(get_by_name(l.backend_name)))
               /\ connections' = Registered(l.backend_name, NextConn)
               /\ task' = [task EXCEPT ![t] = Returned(@, "BackendNotFoundError")]
          ELSE /\ task' = [task EXCEPT ![t] = [@ EXCEPT !.pc = "call_inflight", !.conn = connections[l.backend_name]]]
               /\ UNCHANGED <<connections, conns>>
    /\ UNCHANGED <<backends, tools, calls, nextToolId, main, log, nextRid>>

\* lines 212-224 up to the upstream await (BackendConnection.call_tool lines 95-98)
CallCheck(t) ==
    /\ task[t].pc = "call_check"
    /\ LET l == task[t]
           c == connections[l.backend_name]
       IN IF l.backend_name \notin DOMAIN connections
          THEN /\ task' = [task EXCEPT ![t] = Returned(@, "BackendNotFoundError")]
               /\ calls' = calls
          ELSE IF ~conns[c].client
          THEN \E d \in Elapsed :
                Record(t, [l EXCEPT !.conn = c, !.success = FALSE,
                                    !.error_message = "not connected", !.exc = "ToolCallError",
                                    !.latency_ms = LatencyMs(d)])
          ELSE /\ task' = [task EXCEPT ![t] = [@ EXCEPT !.pc = "call_inflight", !.conn = c]]
               /\ calls' = calls
    /\ UNCHANGED <<backends, tools, nextToolId, connections, conns, main, log, nextRid>>

\* line 224 completes: the upstream returns or raises an Exception; the handler runs
\* on through lines 225-252 (its own locals apart, nothing is touched before the
\* finalizer's session)
CallUpstream(t) ==
    /\ task[t].pc = "call_inflight"
    /\ \E d \in Elapsed :
           \/ \E r \in Results :
                Record(t, [task[t] EXCEPT !.result = r,
                                          !.latency_ms = LatencyMs(d)])
           \/ \E e \in ErrorTexts :
                Record(t, [task[t] EXCEPT !.success = FALSE, !.error_message = e,
                                          !.exc = "ToolCallError",
                                          !.latency_ms = LatencyMs(d)])
    /\ UNCHANGED <<backends, tools, nextToolId, connections, conns, main, log, nextRid>>

\* line 224 is cancelled: CancelledError is no Exception, `except Exception` is
\* skipped and the finalizer runs with success as line 215 set it
CallCancel(t) ==
    /\ task[t].pc = "call_inflight"
    /\ \E d \in Elapsed :
        Record(t, [task[t] EXCEPT !.exc = "CancelledError", !.latency_ms = LatencyMs(d)])
    /\ UNCHANGED <<backends, tools, nextToolId, connections, conns, main, log, nextRid>>

\* ------------------------------------------------ BackendManager.add_backend
\* the caller's Backend object is the row as the caller read it; _connect_backend
\* constructs the connection and connect() runs up to the ping (or fails on the url)
BeginAdd(t, b) ==
    /\ Serving /\ Accepts(t) /\ nextRid < MaxOps
    /\ Allocated < MaxConns
    /\ nextRid' = nextRid + 1
    /\ conns' = Constructed(backends[b])
    /\ LET l == [op |-> "add_backend", rid |-> nextRid + 1, backend |-> backends[b],
                 conn |-> NextConn, tools |-> <<>>, pc |-> "add_ping", kind |-> None]
       IN task' = [task EXCEPT ![t] =
            IF Falsy(backends[b].url) THEN Returned(l, "BackendConnectionError") ELSE l]
    /\ UNCHANGED <<backends, tools, calls, nextToolId, connections, main, log>>

\* a _connect_backend that stores the connection before connect() has succeeded
AddPingRegistersFirst(t) ==
    /\ task[t].pc = "add_ping"
    /\ LET c == task[t].conn
           name == task[t].backend.name
       IN \E ok \in BOOLEAN :
            /\ connections' = Registered(name, c)
            /\ IF ok
               THEN /\ conns' = conns
                    /\ task' = [task EXCEPT ![t] = [@ EXCEPT !.pc = "add_list"]]
               ELSE /\ conns' = [conns EXCEPT ![c].client = FALSE]
                    /\ task' = [task EXCEPT ![t] =
                            Returned(@, "BackendConnectionError")]
    /\ UNCHANGED <<backends, tools, calls, nextToolId, main, log, nextRid>>

\* a connect() whose except clause raises without resetting _client
AddPingKeepsClient(t) ==
    /\ task[t].pc = "add_ping"
    /\ LET c == task[t].conn
           name == task[t].backend.name
       IN \E ok \in BOOLEAN :
            IF ok
            THEN /\ connections' = Registered(name, c)
                 /\ task' = [task EXCEPT ![t] = [@ EXCEPT !.pc = "add_list"]]
            ELSE /\ connections' = connections
                 /\ task' = [task EXCEPT ![t] = Returned(@, "BackendConnectionError")]
    /\ UNCHANGED <<backends, tools, calls, nextToolId, conns, main, log, nextRid>>

\* a _connect_backend that disconnects the connection it replaces
AddPingDisconnectsOld(t) ==
    /\ task[t].pc = "add_ping"
    /\ LET c == task[t].conn
           name == task[t].backend.name
       IN \E ok \in BOOLEAN :
            IF ok
            THEN /\ connections' = Registered(name, c)
                 /\ conns' = IF name \in DOMAIN connections
                             THEN [conns EXCEPT ![connections[name]].client = FALSE]
                             ELSE conns
                 /\ task' = [task EXCEPT ![t] = [@ EXCEPT !.pc = "add_list"]]
            ELSE /\ connections' = connections
                 /\ conns' = [conns EXCEPT ![c].client = FALSE]
                 /\ task' = [task EXCEPT ![t] =
                        Returned(@, "BackendConnectionError")]
    /\ UNCHANGED <<backends, tools, calls, nextToolId, main, log, nextRid>>

\* connection.py lines 48-53, then manager.py lines 87-88 and 103 up to the upstream await
AddPing(t) ==
    /\ task[t].pc = "add_ping"
    /\ LET c == task[t].conn
           name == task[t].backend.name
       IN \E ok \in BOOLEAN :
            IF ok
            THEN /\ connections' = Registered(name, c)
                 /\ conns' = conns
                 /\ task' = [task EXCEPT ![t] = [@ EXCEPT !.pc = "add_list"]]
            ELSE /\ connections' = connections
                 /\ conns' = [conns EXCEPT ![c].client = FALSE]
                 /\ task' = [task EXCEPT ![t] =
                        Returned(@, "BackendConnectionError")]
    /\ UNCHANGED <<backends, tools, calls, nextToolId, main, log, nextRid>>

\* a failure of list_tools after which the connection is taken out of the map again
ListFailsUnregisters(t, from) ==
    /\ task[t].pc = from
    /\ task' = [task EXCEPT ![t] = Returned(@, "UpstreamError")]
    /\ connections' = [n \in {m \in DOMAIN connections : connections[m] # task[t].conn} |->
                            connections[n]]
    /\ UNCHANGED <<backends, tools, calls, nextToolId, conns, main, log, nextRid>>

\* BackendConnection.list_tools raises (lines 104 and 139 let it escape)
ListFails(t, from) ==
    /\ task[t].pc = from
    /\ task' = [task EXCEPT ![t] = Returned(@, "UpstreamError")]
    /\ UNCHANGED <<backends, tools, calls, nextToolId, connections, conns, main, log, nextRid>>

AddListFails(t) == ListFails(t, "add_list")

\* one session: refresh_backend_tools(backend, U), flush, commit
SaveTools(t, U, found) ==
    LET backend == One(found)
    IN IF found = {}
       THEN /\ task' = [task EXCEPT ![t] = Returned(@, "BackendNotFoundError")]
            /\ UNCHANGED <<tools, calls, nextToolId>>
       ELSE IF ~RefreshAccepted(backend, U)
       THEN /\ task' = [task EXCEPT ![t] = Returned(@, "IntegrityError")]
            /\ UNCHANGED <<tools, calls, nextToolId>>
       ELSE /\ nextToolId + Len(U) - 1 <= MaxToolId
            /\ tools' = refresh_backend_tools(backend, U)
            /\ calls' = SetNullDeleted(calls, {tl \in tools : tl.backend_id # backend.id})
            /\ nextToolId' = nextToolId + Len(U)
            /\ task' = [task EXCEPT ![t] = Returned([@ EXCEPT !.tools = U], "ok")]

\* line 104 completes with the upstream's list U, then lines 106-112
AddSave(t) ==
    /\ task[t].pc = "add_list"
    /\ \E U \in ToolLists : SaveTools(t, U, {task[t].backend})
    /\ UNCHANGED <<backends, connections, conns, main, log, nextRid>>

\* -------------------------------------------- BackendManager.refresh_backend
\* lines 135-139 up to the upstream await
\* a refresh_backend that connects a backend it finds absent from the map
BeginRefreshReconnects(t, name) ==
    /\ Serving /\ Accepts(t) /\ nextRid < MaxOps
    /\ nextRid' = nextRid + 1
    /\ LET absent == name \notin DOMAIN connections
           l == [op |-> "refresh_backend", rid |-> nextRid + 1, name |-> name,
                 conn |-> IF absent THEN NextConn ELSE connections[name], tools |-> <<>>,
                 pc |-> "refresh_list", kind |-> None]
       IN /\ task' = [task EXCEPT ![t] = l]
          /\ IF absent
             THEN /\ Allocated < MaxConns
                  /\ conns' = Constructed(One(get_by_name(name)))
                  /\ connections' = Registered(name, NextConn)
             ELSE UNCHANGED <<connections, conns>>
    /\ UNCHANGED <<backends, tools, calls, nextToolId, main, log>>

BeginRefresh(t, name) ==
    /\ Serving /\ Accepts(t) /\ nextRid < MaxOps
    /\ nextRid' = nextRid + 1
    /\ LET c == connections[name]
           absent == name \notin DOMAIN connections
           l == [op |-> "refresh_backend", rid |-> nextRid + 1, name |-> name,
                 conn |-> IF absent THEN None ELSE c, tools |-> <<>>,
                 pc |-> "refresh_list", kind |-> None]
       IN task' = [task EXCEPT ![t] =
            IF absent THEN Returned(l, "BackendNotFoundError")
            ELSE IF conns[c].client THEN l ELSE Returned(l, "BackendConnectionError")]
    /\ UNCHANGED <<backends, tools, calls, nextToolId, connections, conns, main, log>>

RefreshListFails(t) == ListFails(t, "refresh_list")

\* line 139 completes with the upstream's list U, then lines 141-152
RefreshSave(t) ==
    /\ task[t].pc = "refresh_list"
    /\ \E U \in ToolLists : SaveTools(t, U, get_by_name(task[t].name))
    /\ UNCHANGED <<backends, connections, conns, main, log, nextRid>>

\* --------------------------------------------- BackendManager.remove_backend
\* disconnect() and the del run without suspending
\* a remove_backend that drops the map entry and leaves the connection open
RemovedStillOpen(map, objs, name) ==
    IF name \notin DOMAIN map
    THEN [connections |-> map, conns |-> objs]
    ELSE [connections |-> [n \in DOMAIN map \ {name} |-> map[n]], conns |-> objs]

Removed(map, objs, name) ==
    IF name \notin DOMAIN map
    THEN [connections |-> map, conns |-> objs]
    ELSE [connections |-> [n \in DOMAIN map \ {name} |-> map[n]],
          conns |-> [objs EXCEPT ![map[name]].client = FALSE]]

\* a remove_backend that deletes the tools of the backend along with the entry
RemoveBackendDropsTools(t, name) ==
    /\ Serving /\ Accepts(t) /\ nextRid < MaxOps
    /\ nextRid' = nextRid + 1
    /\ connections' = Removed(connections, conns, name).connections
    /\ conns' = Removed(connections, conns, name).conns
    /\ tools' = {tl \in tools : One(get_by_id(tl.backend_id)).name # name}
    /\ task' = [task EXCEPT ![t] =
            Returned([op |-> "remove_backend", rid |-> nextRid + 1, name |-> name], "ok")]
    /\ UNCHANGED <<backends, calls, nextToolId, main, log>>

RemoveBackend(t, name) ==
    /\ Serving /\ Accepts(t) /\ nextRid < MaxOps
    /\ nextRid' = nextRid + 1
    /\ connections' = Removed(connections, conns, name).connections
    /\ conns' = Removed(connections, conns, name).conns
    /\ task' = [task EXCEPT ![t] =
            Returned([op |-> "remove_backend", rid |-> nextRid + 1, name |-> name], "ok")]
    /\ UNCHANGED <<backends, tools, calls, nextToolId, main, log>>

\* ------------------------------------------------- BackendRepository.update
\* the admin route PUT /backends/{name}: one session, setattr then commit
UpdateBackend(t, b, prefix) ==
    /\ Serving /\ Accepts(t) /\ nextRid < MaxOps
    /\ backends[b].prefix # prefix
    /\ nextRid' = nextRid + 1
    /\ backends' = [backends EXCEPT ![b].prefix = prefix]
    /\ task' = [task EXCEPT ![t] =
            Returned([op |-> "update_backend", rid |-> nextRid + 1, name |-> backends[b].name], "ok")]
    /\ UNCHANGED <<tools, calls, nextToolId, connections, conns, main, log>>

\* --------------------------------------------------- BackendManager.shutdown
RECURSIVE RemovedAll(_, _, _)
RemovedAll(map, objs, names) ==
    IF names = <<>> THEN [connections |-> map, conns |-> objs]
    ELSE LET r == Removed(map, objs, Head(names))
         IN RemovedAll(r.connections, r.conns, Tail(names))

\* the lifespan runs shutdown() once the server has drained its requests
Shutdown ==
    /\ Serving
    /\ \A t \in Tasks : Free(t)
    /\ LET keys == SelectSeq(Names, LAMBDA n : n \in DOMAIN connections)
       IN /\ connections' = RemovedAll(connections, conns, keys).connections
          /\ conns' = RemovedAll(connections, conns, keys).conns
    /\ main' = [main EXCEPT !.pc = "stopped"]
    /\ UNCHANGED <<backends, tools, calls, nextToolId, task, log, nextRid>>

Next ==
    \/ InitLoad
    \/ InitConnect
    \/ InitPing
    \/ InitDone
    \/ Shutdown
    \/ \E t \in Tasks :
        \/ \E pn \in CallNames, args \in Arguments : BeginCall(t, pn, args)
        \/ CallLookup(t)
        \/ CallCheck(t)
        \/ CallUpstream(t)
        \/ CallCancel(t)
        \/ \E b \in BackendIds : BeginAdd(t, b)
        \/ AddPing(t)
        \/ AddListFails(t)
        \/ AddSave(t)
        \/ \E n \in BackendNames : BeginRefresh(t, n)
        \/ RefreshListFails(t)
        \/ RefreshSave(t)
        \/ \E n \in BackendNames : RemoveBackend(t, n)
        \/ \E b \in BackendIds, p \in Prefixes : UpdateBackend(t, b, p)

Spec == Init /\ [][Next]_vars

\* ================================================== the dispatcher (server.py)
MountPrefixes == {"a", "b"}

KnownMethods == {"initialize", "ping", "tools/list", "tools/call"}

Methods == KnownMethods \cup {"resources/list"}

RequestIds == {"id1"}

ParamNames == {"x", "y", "a__x", "b__y"}

\* the "params" member of a tools/call: a JSON string, or an object with or
\* without a "name"
Params ==
    {[json |-> "string"]}
        \cup {Object([name |-> n, arguments |-> a]) : n \in ParamNames, a \in Arguments}
        \cup {Object([arguments |-> a]) : a \in Arguments}

\* request bodies: bytes that are no JSON, a JSON array, JSON objects
Bodies ==
    {[json |-> "undecodable"], [json |-> "array"]}
        \cup {Object([method |-> m, id |-> i]) : m \in Methods \ {"tools/call"}, i \in RequestIds}
        \cup {Object([method |-> m]) : m \in {"ping", "resources/list"}}
        \cup {Object([id |-> i]) : i \in RequestIds}
        \cup {Object([method |-> "tools/call", params |-> q, id |-> i]) :
                q \in Params, i \in RequestIds}

\* POST /mcp and POST /mcp/{prefix}
Requests ==
    {[endpoint |-> "mcp", prefix |-> None, body |-> b] : b \in Bodies}
        \cup {[endpoint |-> "mount", prefix |-> p, body |-> b] : p \in MountPrefixes, b \in Bodies}

handle_initialize ==
    [protocolVersion |-> "2024-11-05",
     serverInfo |-> [name |-> "forge-armory", version |-> "0.1.0"]]

\* the tools of the list are taken as the set of their names
handle_list_tools == [tools |-> {tl.prefixed_name : tl \in tools}]

\* a mount lookup that does not look at mount_enabled
MountBackendsAnyFlag(prefix) ==
    SelectSeq(list_all(TRUE), LAMBDA b : effective_prefix(b) = prefix)

\* lines 178-182: the enabled backends, by name, that the generator of next() yields
MountBackends(prefix) ==
    SelectSeq(list_all(TRUE), LAMBDA b : effective_prefix(b) = prefix /\ b.mount_enabled)

handle_list_tools_for_mount(prefix) ==
    IF MountBackends(prefix) = <<>> THEN [tools |-> {}]
    ELSE [tools |-> {tl.name : tl \in list_by_backend(Head(MountBackends(prefix)).id)}]

\* lines 202-205: the arguments _handle_call_tool gives manager.call_tool
handle_call_tool(params) ==
    <<Get(params.obj, "name", ""), Get(params.obj, "arguments", EmptyObject)>>

\* a mount handler that routes the bare name
handle_call_tool_for_mount_bare(prefix, params) ==
    <<Get(params.obj, "name", ""), Get(params.obj, "arguments", EmptyObject)>>

\* lines 214-219: the arguments _handle_call_tool_for_mount gives manager.call_tool
handle_call_tool_for_mount(prefix, params) ==
    <<prefix \o "__" \o Get(params.obj, "name", ""),
      Get(params.obj, "arguments", EmptyObject)>>

\* a dispatcher that reports an unknown method as an internal error
MethodNotFoundAsInternal(method, request_id) ==
    ErrorResponse(-32603, <<"Method not found">>, request_id, 500)

\* lines 70-77 (120-127)
MethodNotFound(method, request_id) ==
    ErrorResponse(-32601, <<"Method not found: ", method>>, request_id, 400)

\* handle_mcp_request / handle_mount_request up to the response, or up to the first
\* await inside manager.call_tool
Receive(t, request) ==
    /\ Serving /\ Accepts(t) /\ nextRid < MaxRequests
    /\ nextRid' = nextRid + 1
    /\ LET body == request.body
           l == [op |-> "dispatch", rid |-> nextRid + 1, request |-> request]
           Responds(r) == l @@ [pc |-> "done", kind |-> "ok", response |-> r]
           Raises(e, r) == l @@ [pc |-> "done", kind |-> e, response |-> r]
       IN task' = [task EXCEPT ![t] =
            IF body.json = "undecodable"
            THEN Responds(ErrorResponse(-32700, <<"Parse error">>, None, 400))
            ELSE IF body.json # "object"
            THEN Raises("AttributeError", [raised |-> "AttributeError"])
            ELSE LET method == Get(body.obj, "method", "")
                     params == Get(body.obj, "params", EmptyObject)
                     request_id == Get(body.obj, "id", None)
                     mount == request.endpoint = "mount"
                 IN IF method = "initialize"
                    THEN Responds(ResultResponse(handle_initialize, request_id))
                    ELSE IF method = "tools/list"
                    THEN Responds(ResultResponse(
                            IF mount THEN handle_list_tools_for_mount(request.prefix)
                            ELSE handle_list_tools, request_id))
                    ELSE IF method = "tools/call"
                    THEN IF params.json # "object"
                         THEN Raises("AttributeError",
                                ErrorResponse(-32603, Str(l, "AttributeError"), request_id, 500))
                         ELSE LET a == IF mount
                                       THEN handle_call_tool_for_mount(request.prefix, params)
                                       ELSE handle_call_tool(params)
                              IN CallFrame(nextRid + 1, a[1], a[2])
                                    @@ [request |-> request, response |-> None]
                    ELSE IF method = "ping"
                    THEN Responds(ResultResponse(EmptyObject, request_id))
                    ELSE Responds(MethodNotFound(method, request_id))]
    /\ UNCHANGED <<backends, tools, calls, nextToolId, connections, conns, main, log>>

\* the tables the server starts on: both backends have a url, each owns one tool
GatewayBackends ==
    {f \in [BackendIds -> [id : BackendIds, name : BackendNames, url : Urls,
                           enabled : BOOLEAN, prefix : Prefixes, mount_enabled : BOOLEAN]] :
        /\ \A b \in BackendIds : f[b].id = b /\ f[b].name = Names[b] /\ f[b].url # None
        /\ f[1].enabled /\ f[1].prefix = None}

GatewayTools(rows) ==
    {[id |-> ToolId(1), backend_id |-> 1, name |-> "x",
      prefixed_name |-> PrefixedName(effective_prefix(rows[1]), "x")],
     [id |-> ToolId(2), backend_id |-> 2, name |-> "y",
      prefixed_name |-> PrefixedName(effective_prefix(rows[2]), "y")]}

GatewayInit ==
    /\ backends \in GatewayBackends
    /\ tools = GatewayTools(backends)
    /\ calls = <<>>
    /\ nextToolId = 3
    /\ connections = <<>>
    /\ conns = <<>>
    /\ task = [t \in Tasks |-> Idle]
    /\ main = [pc |-> "init_load", queue |-> <<>>, conn |-> None]
    /\ log = <<>>
    /\ nextRid = 0

GatewayNext ==
    \/ InitLoad
    \/ InitConnect
    \/ InitPing
    \/ InitDone
    \/ \E t \in Tasks :
        \/ \E request \in Requests : Receive(t, request)
        \/ CallLookup(t)
        \/ CallCheck(t)
        \/ CallUpstream(t)
        \/ CallCancel(t)

GatewaySpec == GatewayInit /\ [][GatewayNext]_vars

\* ============================= a BackendConnection on its own (connection.py)
MaxCalls == 3           \* calls made on the connection objects

\* BackendConnection(backend): lines 22-24
BackendConnection(backend) == [backend |-> backend, client |-> FALSE]

\* the frame of a method called on connection c; io tells whether the transport
\* has been entered
Method(op, c) ==
    [op |-> op, rid |-> nextRid + 1, conn |-> c, pc |-> "done", kind |-> "ok", io |-> FALSE]

Calls(t) ==
    /\ Free(t) /\ nextRid < MaxCalls
    /\ nextRid' = nextRid + 1

Construct(b) ==
    /\ Allocated < MaxConns
    /\ conns' = conns @@ (NextConn :> BackendConnection(backends[b]))
    /\ UNCHANGED <<backends, tools, calls, nextToolId, connections, task, main, log, nextRid>>

\* connect() lines 42-50, up to the ping
connect(t, c) ==
    /\ Calls(t)
    /\ IF Falsy(conns[c].backend.url)
       THEN /\ task' = [task EXCEPT ![t] =
                    [Method("connect", c) EXCEPT !.kind = "BackendConnectionError"]]
            /\ conns' = conns
       ELSE /\ task' = [task EXCEPT ![t] =
                    [Method("connect", c) EXCEPT !.pc = "connect_ping", !.io = TRUE]]
            /\ conns' = [conns EXCEPT ![c].client = TRUE]
    /\ UNCHANGED <<backends, tools, calls, nextToolId, connections, main, log>>

\* connect() lines 50-53: the ping answers or fails
connect_ping(t) ==
    /\ task[t].pc = "connect_ping"
    /\ \E ok \in BOOLEAN :
        IF ok
        THEN /\ task' = [task EXCEPT ![t] = [@ EXCEPT !.pc = "done"]]
             /\ conns' = conns
        ELSE /\ task' = [task EXCEPT ![t] =
                    [@ EXCEPT !.pc = "done", !.kind = "BackendConnectionError"]]
             /\ conns' = [conns EXCEPT ![task[t].conn].client = FALSE]
    /\ UNCHANGED <<backends, tools, calls, nextToolId, connections, main, log, nextRid>>

\* disconnect() lines 55-57
disconnect(t, c) ==
    /\ Calls(t)
    /\ task' = [task EXCEPT ![t] = Method("disconnect", c)]
    /\ conns' = [conns EXCEPT ![c].client = FALSE]
    /\ UNCHANGED <<backends, tools, calls, nextToolId, connections, main, log>>

\* a guard that lets every call through to the transport
NeverRefused(obj) == FALSE

\* `if not self._client` of lines 68 and 95
NotConnected(obj) == ~obj.client

\* list_tools() / call_tool() up to the await on the transport
Enter(t, c, op) ==
    /\ Calls(t)
    /\ task' = [task EXCEPT ![t] =
            IF NotConnected(conns[c])
            THEN [Method(op, c) EXCEPT !.kind = "BackendConnectionError"]
            ELSE [Method(op, c) EXCEPT !.pc = "transport", !.io = TRUE]]
    /\ UNCHANGED <<backends, tools, calls, nextToolId, connections, conns, main, log>>

\* lines 59-72
conn_list_tools(t, c) == Enter(t, c, "list_tools")

\* lines 82-99
conn_call_tool(t, c) == Enter(t, c, "call_tool")

\* the transport answers or raises
transport(t) ==
    /\ task[t].pc = "transport"
    /\ \E kind \in {"ok", "UpstreamError"} :
        task' = [task EXCEPT ![t] = [@ EXCEPT !.pc = "done", !.kind = kind]]
    /\ UNCHANGED <<backends, tools, calls, nextToolId, connections, conns, main, log, nextRid>>

ConnectionInit ==
    /\ backends \in {f \in InitBackends : f[2].url = None /\ f[2].enabled}
    /\ tools = {}
    /\ calls = <<>>
    /\ nextToolId = 1
    /\ connections = <<>>
    /\ conns = <<>>
    /\ task = [t \in Tasks |-> Idle]
    /\ main = [pc |-> "serving", queue |-> <<>>, conn |-> None]
    /\ log = <<>>
    /\ nextRid = 0

ConnectionNext ==
    \/ \E b \in BackendIds : Construct(b)
    \/ \E t \in Tasks :
        \/ \E c \in DOMAIN conns :
            \/ connect(t, c)
            \/ disconnect(t, c)
            \/ conn_list_tools(t, c)
            \/ conn_call_tool(t, c)
        \/ connect_ping(t)
        \/ transport(t)

ConnectionSpec == ConnectionInit /\ [][ConnectionNext]_vars

\* ================================= the enable route (admin/routes.py 287-325)
\* an enable route that gives up enabled when the connection cannot be made
enable_backend_reverts(t, b) ==
    /\ Serving /\ Accepts(t) /\ nextRid < MaxOps
    /\ nextRid' = nextRid + 1
    /\ backends' = IF backends[b].name \notin connected_backends /\ Falsy(backends[b].url)
                 THEN backends
                 ELSE [backends EXCEPT ![b].enabled = TRUE]
    /\ LET name == backends[b].name
           l == [op |-> "add_backend", rid |-> nextRid + 1, backend |-> backends'[b],
                 conn |-> NextConn, tools |-> <<>>, pc |-> "add_ping", kind |-> None,
                 route |-> "enable", name |-> name, warned |-> FALSE]
       IN IF name \in connected_backends
          THEN /\ task' = [task EXCEPT ![t] = Returned([l EXCEPT !.conn = None], "ok")]
               /\ conns' = conns
          ELSE /\ Allocated < MaxConns
               /\ conns' = Constructed(backends'[b])
               /\ task' = [task EXCEPT ![t] =
                    IF Falsy(backends[b].url) THEN Returned(l, "BackendConnectionError")
                    ELSE l]
    /\ UNCHANGED <<tools, calls, nextToolId, connections, main, log>>

\* set_enabled(name, enabled=True) and commit, then lines 303-308 up to the ping of
\* add_backend; the route returns once add_backend has returned or raised
enable_backend(t, b) ==
    /\ Serving /\ Accepts(t) /\ nextRid < MaxOps
    /\ nextRid' = nextRid + 1
    /\ backends' = [backends EXCEPT ![b].enabled = TRUE]
    /\ LET name == backends[b].name
           l == [op |-> "add_backend", rid |-> nextRid + 1, backend |-> backends'[b],
                 conn |-> NextConn, tools |-> <<>>, pc |-> "add_ping", kind |-> None,
                 route |-> "enable", name |-> name, warned |-> FALSE]
       IN IF name \in connected_backends
          THEN /\ task' = [task EXCEPT ![t] = Returned([l EXCEPT !.conn = None], "ok")]
               /\ conns' = conns
          ELSE /\ Allocated < MaxConns
               /\ conns' = Constructed(backends'[b])
               /\ task' = [task EXCEPT ![t] =
                    IF Falsy(backends[b].url) THEN Returned(l, "BackendConnectionError")
                    ELSE l]
    /\ UNCHANGED <<tools, calls, nextToolId, connections, main, log>>

\* the backends table the admin routes work on
AdminBackends ==
    {f \in [BackendIds -> [id : BackendIds, name : BackendNames, url : Urls,
                           enabled : BOOLEAN, prefix : Prefixes, mount_enabled : BOOLEAN]] :
        /\ \A b \in BackendIds :
            f[b].id = b /\ f[b].name = Names[b] /\ f[b].prefix = None /\ f[b].mount_enabled
        /\ f[1].url # None}

AdminInit ==
    /\ backends \in AdminBackends
    /\ tools \in InitTools
    /\ calls = <<>>
    /\ nextToolId = Cardinality(tools) + 1
    /\ connections = <<>>
    /\ conns = <<>>
    /\ task = [t \in Tasks |-> Idle]
    /\ main = [pc |-> "init_load", queue |-> <<>>, conn |-> None]
    /\ log = <<>>
    /\ nextRid = 0

AdminNext ==
    \/ InitLoad
    \/ InitConnect
    \/ InitPing
    \/ InitDone
    \/ \E t \in Tasks :
        \/ \E b \in BackendIds : enable_backend(t, b)
        \/ AddPing(t)
        \/ AddListFails(t)
        \/ AddSave(t)
        \/ \E n \in BackendNames : RemoveBackend(t, n)

AdminSpec == AdminInit /\ [][AdminNext]_vars

\* ================================ the statistics (db/repository.py 274-363)
MaxRows == 5            \* rows of tool_calls, all of successful calls
MaxMixed == 4           \* rows of tool_calls, of successful and failed calls

Latencies == {10, 20, 30, 40, 50}

\* a row of tool_calls as call_tool records it
StatRow(latency, success) ==
    [tool_id |-> None, backend_name |-> Names[1], tool_name |-> "x", arguments |-> "args",
     success |-> success, error_message |-> IF success THEN None ELSE "boom",
     latency_ms |-> latency, request_id |-> 0]

\* the tables the statistics are taken over: successful calls of any latency, in any
\* order, and calls of either outcome of two latencies
Histories ==
    SeqsUpTo({StatRow(latency, TRUE) : latency \in Latencies}, MaxRows)
        \cup SeqsUpTo({StatRow(latency, success) : latency \in {10, 20}, success \in BOOLEAN},
                      MaxMixed)

\* the rows selected by `where backend_name == ...`, an absent filter selects all
Selected(backend_name) ==
    SelectSeq(calls, LAMBDA c : Falsy(backend_name) \/ c.backend_name = backend_name)

RECURSIVE sum(_)
sum(s) == IF s = <<>> THEN 0 ELSE Head(s) + sum(Tail(s))

RECURSIVE min(_)
min(s) == IF Len(s) = 1 THEN s[1] ELSE IF s[1] <= min(Tail(s)) THEN s[1] ELSE min(Tail(s))

RECURSIVE max(_)
max(s) == IF Len(s) = 1 THEN s[1] ELSE IF s[1] >= max(Tail(s)) THEN s[1] ELSE max(Tail(s))

RECURSIVE insert(_, _)
insert(x, s) ==
    IF s = <<>> THEN <<x>>
    ELSE IF x <= Head(s) THEN <<x>> \o s
    ELSE <<Head(s)>> \o insert(x, Tail(s))

\* sorted(list): ascending
RECURSIVE sorted(_)
sorted(s) == IF s = <<>> THEN <<>> ELSE insert(Head(s), sorted(Tail(s)))

\* a / b of two ints, a float: kept as the fraction; 0.0 is 0 / 1
Div(a, b) == [num |-> a, den |-> b]

Zero == Div(0, 1)

\* int(x) of a non-negative quotient a / b
Truncated(a, b) == a \div b

\* a percentile that takes the index from the last position downwards
percentile_ceiling(sorted_values, p) ==
    IF sorted_values = <<>> THEN {}
    ELSE LET index == Truncated(Len(sorted_values) * p + 99, 100)
         IN {sorted_values[(IF index < Len(sorted_values) - 1 THEN index
                            ELSE Len(sorted_values) - 1) + 1]}

\* _percentile (lines 530-535); None is the empty set, a value its singleton
percentile(sorted_values, p) ==
    IF sorted_values = <<>> THEN {}
    ELSE LET index == Truncated(Len(sorted_values) * p, 100)
         IN {sorted_values[(IF index < Len(sorted_values) - 1 THEN index
                            ELSE Len(sorted_values) - 1) + 1]}

\* statistics that count the failures among the successes
basic_stats_miscounted(rows) ==
    IF rows = <<>>
    THEN [total_calls |-> 0, success_count |-> 0, error_count |-> 0, success_rate |-> Zero,
          avg_latency_ms |-> Zero, min_latency_ms |-> 0, max_latency_ms |-> 0]
    ELSE LET latencies == [i \in DOMAIN rows |-> rows[i].latency_ms]
         IN [total_calls |-> Len(rows),
             success_count |-> Len(rows),
             error_count |-> 0,
             success_rate |-> Div(Len(rows), Len(rows)),
             avg_latency_ms |-> Div(sum(latencies), Len(latencies)),
             min_latency_ms |-> min(latencies),
             max_latency_ms |-> max(latencies)]

\* lines 289-313 (and 333-359): the members both reports have
basic_stats(rows) ==
    IF rows = <<>>
    THEN [total_calls |-> 0, success_count |-> 0, error_count |-> 0, success_rate |-> Zero,
          avg_latency_ms |-> Zero, min_latency_ms |-> 0, max_latency_ms |-> 0]
    ELSE LET success_count == Len(SelectSeq(rows, LAMBDA c : c.success))
             latencies == [i \in DOMAIN rows |-> rows[i].latency_ms]
         IN [total_calls |-> Len(rows),
             success_count |-> success_count,
             error_count |-> Len(rows) - success_count,
             success_rate |-> Div(success_count, Len(rows)),
             avg_latency_ms |-> Div(sum(latencies), Len(latencies)),
             min_latency_ms |-> min(latencies),
             max_latency_ms |-> max(latencies)]

\* lines 345-362: the percentile members
percentiles(rows) ==
    LET latencies == sorted([i \in DOMAIN rows |-> rows[i].latency_ms])
    IN [p50_latency_ms |-> percentile(latencies, 50),
        p95_latency_ms |-> percentile(latencies, 95),
        p99_latency_ms |-> percentile(latencies, 99)]

\* ToolCallRepository.get_stats(backend_name)
get_stats(t, backend_name) ==
    /\ Serving /\ Accepts(t) /\ nextRid < MaxRequests
    /\ nextRid' = nextRid + 1
    /\ task' = [task EXCEPT ![t] =
            [op |-> "get_stats", rid |-> nextRid + 1, pc |-> "done", kind |-> "ok",
             backend_name |-> backend_name,
             stats |-> basic_stats(Selected(backend_name)),
             percentiles |-> <<>>]]
    /\ UNCHANGED <<backends, tools, calls, nextToolId, connections, conns, main, log>>

\* ToolCallRepository.get_stats_with_percentiles(backend_name)
get_stats_with_percentiles(t, backend_name) ==
    /\ Serving /\ Accepts(t) /\ nextRid < MaxRequests
    /\ nextRid' = nextRid + 1
    /\ task' = [task EXCEPT ![t] =
            [op |-> "get_stats_with_percentiles", rid |-> nextRid + 1, pc |-> "done",
             kind |-> "ok", backend_name |-> backend_name,
             stats |-> basic_stats(Selected(backend_name)),
             percentiles |-> percentiles(Selected(backend_name))]]
    /\ UNCHANGED <<backends, tools, calls, nextToolId, connections, conns, main, log>>

StatsInit ==
    /\ backends \in {f \in InitBackends : f[2].url # None /\ f[2].enabled}
    /\ tools \in InitTools
    /\ calls \in Histories
    /\ nextToolId = Cardinality(tools) + 1
    /\ connections = <<>>
    /\ conns = <<>>
    /\ task = [t \in Tasks |-> Idle]
    /\ main = [pc |-> "serving", queue |-> <<>>, conn |-> None]
    /\ log = <<>>
    /\ nextRid = 0

StatsNext ==
    \E t \in Tasks, backend_name \in {None} \cup BackendNames :
        \/ get_stats(t, backend_name)
        \/ get_stats_with_percentiles(t, backend_name)

StatsSpec == StatsInit /\ [][StatsNext]_vars

\* ============================ the timeseries route (admin/routes.py 559-600)
MaxPeriod == 30         \* the number N of a period token <N>h, <N>d, <N>m

\* the period tokens: "<N>h", "<N>d", "<N>m" as the number and the suffix, and "all"
Token(n, unit) == [n |-> n, unit |-> unit]

Periods == {Token(n, unit) : n \in 1..MaxPeriod, unit \in {"h", "d", "m"}} \cup {Token(0, "all")}

Granularities == {"minute", "hour", "day"}

\* parse_time_period: the distance of `since` from now in minutes, None for "all"
parse_time_period(period) ==
    IF period.unit = "all" THEN {}
    ELSE IF period.unit = "h" THEN {60 * period.n}
    ELSE IF period.unit = "d" THEN {24 * 60 * period.n}
    ELSE {period.n}

\* routes.py lines 570-576
auto_granularity(period) ==
    IF period \in {Token(1, "h"), Token(2, "h")} THEN "minute"
    ELSE IF period \in {Token(24, "h"), Token(7, "d")} THEN "hour"
    ELSE "day"

\* GET /metrics/timeseries over a tool_calls table without rows
get_timeseries(t, period, granularity) ==
    /\ Serving /\ Accepts(t) /\ nextRid < MaxRequests
    /\ calls = <<>>
    /\ nextRid' = nextRid + 1
    /\ task' = [task EXCEPT ![t] =
            [op |-> "get_timeseries", rid |-> nextRid + 1, pc |-> "done", kind |-> "ok",
             period |-> period, requested |-> granularity,
             since |-> parse_time_period(period),
             granularity |-> IF Falsy(granularity) THEN auto_granularity(period)
                             ELSE granularity,
             data |-> <<>>]]
    /\ UNCHANGED <<backends, tools, calls, nextToolId, connections, conns, main, log>>

TimeseriesInit ==
    /\ backends \in {f \in InitBackends : f[2].url # None /\ f[2].enabled}
    /\ tools \in InitTools
    /\ calls = <<>>
    /\ nextToolId = Cardinality(tools) + 1
    /\ connections = <<>>
    /\ conns = <<>>
    /\ task = [t \in Tasks |-> Idle]
    /\ main = [pc |-> "serving", queue |-> <<>>, conn |-> None]
    /\ log = <<>>
    /\ nextRid = 0

TimeseriesNext ==
    \E t \in Tasks, period \in Periods, granularity \in {None} \cup Granularities :
        get_timeseries(t, period, granularity)

TimeseriesSpec == TimeseriesInit /\ [][TimeseriesNext]_vars

\* ============================================================== the claims
IsCall(t) == task[t].op = "call_tool"

Finished(t) == task[t].pc = "done"

\* the rows of tool_calls appended for the invocation of task t
RowsOf(t) == {i \in DOMAIN calls : calls[i].request_id = task[t].rid}

RoutingErrors == {"ToolNotFoundError", "BackendNotFoundError"}

\* C1: a call_tool that reached a connection has, when it returns or raises, exactly
\* one row in tool_calls, with success = TRUE iff the upstream call returned normally,
\* error_message set iff it failed, and latency_ms >= 0.
C1_OneRecordPerAttempt ==
    \A t \in Tasks :
        (IsCall(t) /\ Finished(t) /\ task[t].conn # None) =>
            /\ Cardinality(RowsOf(t)) = 1
            /\ \A i \in RowsOf(t) :
                /\ calls[i].success = (task[t].exc = None)
                /\ (calls[i].error_message # None) = (task[t].exc # None)
                /\ calls[i].latency_ms >= 0

\* C2: while the upstream call of a call_tool is in flight, the connection it runs on
\* is still connected and still the one registered under the backend's name.
C2_NoUseAfterDisconnect ==
    \A t \in Tasks :
        task[t].pc = "call_inflight" =>
            /\ conns[task[t].conn].client
            /\ task[t].backend_name \in DOMAIN connections
            /\ connections[task[t].backend_name] = task[t].conn

\* the backend name a task is working on between its first access to the
\* connection map and its completion (the empty set outside that window)
Section(t) ==
    IF task[t].pc = "add_list" THEN {task[t].backend.name}
    ELSE IF task[t].pc = "refresh_list" THEN {task[t].name}
    ELSE IF task[t].pc = "call_inflight" THEN {task[t].backend_name}
    ELSE {}

Mutating(t) == task[t].op \in {"add_backend", "refresh_backend", "remove_backend"}

\* C3: for one backend name no two operations are inside their window at once,
\* unless both are call_tool.
C3_MutualExclusion ==
    \A t1, t2 \in Tasks :
        (t1 # t2 /\ Mutating(t1)) => Section(t1) \cap Section(t2) = {}

\* C4: a call_tool cancelled while the upstream call was in flight has exactly one
\* row in tool_calls, and that row has success = FALSE.
C4_CancelledCallRecordedFailed ==
    \A t \in Tasks :
        (IsCall(t) /\ Finished(t) /\ task[t].exc = "CancelledError") =>
            /\ Cardinality(RowsOf(t)) = 1
            /\ \A i \in RowsOf(t) : ~calls[i].success

\* C5: a call_tool that failed in routing, before it reached a connection, has
\* appended no row to tool_calls.
C5_RoutingFailureRecordsNothing ==
    \A t \in Tasks :
        (IsCall(t) /\ Finished(t) /\ task[t].kind \in RoutingErrors) => RowsOf(t) = {}

C5_Witness ==
    \E t \in Tasks :
        /\ IsCall(t) /\ Finished(t) /\ task[t].kind \in RoutingErrors
        /\ calls # <<>>

\* a step of task t
Moves(t) == task'[t].pc # task[t].pc \/ task'[t].rid # task[t].rid

\* the step in which task t leaves position pc
Leaves(t, pc) == task[t].pc = pc /\ Moves(t)

\* C6: the lookup of a prefixed name that is not in the tool catalog ends the call
\* with ToolNotFoundError, whatever the connection map and the backend table hold.
C6_UnknownToolIsToolNotFound ==
    [][\A t \in Tasks :
        (Leaves(t, "call_lookup") /\ ~\E tl \in tools : tl.prefixed_name = task[t].prefixed_name)
            => (task'[t].pc = "done" /\ task'[t].kind = "ToolNotFoundError")]_vars

C6_Witness ==
    \E t \in Tasks :
        /\ IsCall(t) /\ Finished(t) /\ task[t].kind = "ToolNotFoundError"
        /\ DOMAIN connections # {}
        /\ tools # {}

\* C7: the connection check of a resolved tool whose backend is absent from the
\* connection map ends the call with BackendNotFoundError, constructs no connection
\* and leaves the connection map as it was.
C7_NoImplicitReconnect ==
    [][\A t \in Tasks :
        (Leaves(t, "call_check") /\ task[t].backend_name \notin DOMAIN connections)
            => /\ task'[t].pc = "done" /\ task'[t].kind = "BackendNotFoundError"
               /\ connections' = connections
               /\ conns' = conns]_vars

C7_Witness ==
    \E t \in Tasks :
        /\ IsCall(t) /\ Finished(t) /\ task[t].kind = "BackendNotFoundError"
        /\ task[t].backend_name # None
        /\ task[t].backend_name \notin DOMAIN connections

\* initialize() has just returned
Initialized == main.pc = "serving" /\ nextRid = 0

Logged(what) == {log[i][2] : i \in {j \in DOMAIN log : log[j][1] = what}}

EnabledNames == {backends[b].name : b \in {x \in BackendIds : backends[x].enabled}}

\* C8: when initialize() returns, a connect was attempted for every enabled backend
\* and for no other, and the connection map holds exactly those whose connect
\* succeeded, each connected.
C8_InitializeIsolatesFailures ==
    Initialized =>
        /\ Logged("connected") \cup Logged("failed") = EnabledNames
        /\ Len(log) = Cardinality(EnabledNames)
        /\ DOMAIN connections = Logged("connected")
        /\ \A n \in DOMAIN connections :
            conns[connections[n]].client /\ conns[connections[n]].backend.name = n

C8_Witness ==
    /\ Initialized
    /\ log = <<<<"failed", Names[1]>>, <<"connected", Names[2]>>>>

\* the step in which the add_backend of task t ends without a connection
ConnectFails(t) ==
    /\ Moves(t)
    /\ task'[t].op = "add_backend"
    /\ task[t].pc \in {"idle", "done", "add_ping"}
    /\ ~conns'[task'[t].conn].client

\* C9: an add_backend whose connection cannot be established fails with
\* BackendConnectionError in a step that leaves the connection map and the tool
\* catalog as they were, its connection nowhere in the map.
C9_FailedConnectChangesNothing ==
    [][\A t \in Tasks :
        ConnectFails(t) =>
            /\ task'[t].pc = "done" /\ task'[t].kind = "BackendConnectionError"
            /\ connections' = connections
            /\ tools' = tools
            /\ \A n \in DOMAIN connections' : connections'[n] # task'[t].conn]_vars

C9_Witness ==
    \E t \in Tasks :
        /\ task[t].op = "add_backend" /\ Finished(t)
        /\ task[t].kind = "BackendConnectionError"
        /\ ~Falsy(conns[task[t].conn].backend.url)
        /\ tools # {}

\* the step in which task t commits a catalog refresh
Refreshes(t) ==
    /\ task[t].pc \in {"add_list", "refresh_list"}
    /\ task'[t].pc = "done" /\ task'[t].kind = "ok"

\* the Backend a refresh was given
Refreshed(t) ==
    IF task[t].op = "add_backend" THEN task[t].backend
    ELSE backends[CHOOSE b \in BackendIds : backends[b].name = task[t].name]

\* C10: a completed refresh of backend B with upstream names U leaves, for B, exactly
\* one row per name of U, all inserted by this refresh, each with prefixed_name =
\* effective prefix, "__", name; no two rows of the catalog share a prefixed name;
\* the rows of the other backends are as they were.
C10_RefreshReplacesCatalog ==
    [][\A t \in Tasks :
        Refreshes(t) =>
            LET B == Refreshed(t)
                U == task'[t].tools
                prefix == IF B.prefix = None \/ B.prefix = "" THEN B.name ELSE B.prefix
                mine == {tl \in tools' : tl.backend_id = B.id}
            IN /\ \A i \in DOMAIN U : Cardinality({tl \in mine : tl.name = U[i]}) = 1
               /\ \A tl \in mine :
                    /\ tl.name \in Range(U)
                    /\ tl.prefixed_name = prefix \o "__" \o tl.name
                    /\ \A old \in tools : old.id # tl.id
               /\ \A x, y \in tools' : x.prefixed_name = y.prefixed_name => x = y
               /\ {tl \in tools' : tl.backend_id # B.id} = {tl \in tools : tl.backend_id # B.id}]_vars

C10_Witness ==
    \E t \in Tasks :
        /\ task[t].op \in {"add_backend", "refresh_backend"} /\ Finished(t) /\ task[t].kind = "ok"
        /\ Len(task[t].tools) = 2
        /\ Cardinality(tools) = 3

\* the backend row that owns a tool row
Owner(tl) == backends[CHOOSE b \in BackendIds : backends[b].id = tl.backend_id]

\* C11: every row of the tool catalog has prefixed_name = effective prefix of the
\* backend that owns it, "__", name, and no two rows share a prefixed_name.
C11_CatalogNamesFollowPrefix ==
    /\ \A tl \in tools :
        LET B == Owner(tl)
            prefix == IF B.prefix = None \/ B.prefix = "" THEN B.name ELSE B.prefix
        IN tl.prefixed_name = prefix \o "__" \o tl.name
    /\ \A x, y \in tools : x.prefixed_name = y.prefixed_name => x = y

\* the connection objects still inside connect(): constructed, not yet returned
Connecting ==
    {c \in DOMAIN conns : main.pc = "init_ping" /\ main.conn = c}
        \cup {task[t].conn : t \in {u \in Tasks : task[u].pc = "add_ping"}}

\* C12: every connection stored in the connection map is connected, and every
\* connected connection object (outside its own connect()) is the one stored in the
\* map under the name of its backend.
C12_MapHoldsExactlyTheConnected ==
    /\ \A n \in DOMAIN connections : conns[connections[n]].client
    /\ \A c \in DOMAIN conns \ Connecting :
        conns[c].client =>
            /\ conns[c].backend.name \in DOMAIN connections
            /\ connections[conns[c].backend.name] = c

\* the step that is the remove_backend of task t
Removes(t) == Moves(t) /\ task'[t].op = "remove_backend"

\* C13: remove_backend(name) raises nothing and leaves name absent from the map and
\* every other entry as it was; a registered name has its connection disconnected,
\* an absent name changes nothing at all.
C13_RemoveIsIdempotent ==
    [][\A t \in Tasks :
        Removes(t) =>
            LET name == task'[t].name
            IN /\ task'[t].pc = "done" /\ task'[t].kind = "ok"
               /\ DOMAIN connections' = DOMAIN connections \ {name}
               /\ \A n \in DOMAIN connections' : connections'[n] = connections[n]
               /\ <<backends', tools', calls'>> = <<backends, tools, calls>>
               /\ IF name \in DOMAIN connections
                  THEN conns' = [conns EXCEPT ![connections[name]].client = FALSE]
                  ELSE conns' = conns /\ connections' = connections]_vars

\* a remove_backend, the second operation of the run, has returned: its name is
\* out of the map, its connection is disconnected, another backend is still registered
C13_Witness ==
    \E t \in Tasks :
        /\ task[t].op = "remove_backend" /\ Finished(t) /\ task[t].rid = 2
        /\ task[t].name \notin DOMAIN connections
        /\ DOMAIN connections # {}
        /\ \E c \in DOMAIN conns :
            conns[c].backend.name = task[t].name /\ ~conns[c].client

\* a step of the refresh_backend of task t
RefreshSteps(t) == Moves(t) /\ task'[t].op = "refresh_backend"

\* C14: no step of refresh_backend changes the connection map or a connection
\* object; called with a name that is not in the map it ends at once with
\* BackendNotFoundError and the tool catalog as it was.
C14_RefreshNeverConnects ==
    [][\A t \in Tasks :
        RefreshSteps(t) =>
            /\ connections' = connections
            /\ conns' = conns
            /\ (Free(t) /\ task'[t].name \notin DOMAIN connections) =>
                    /\ task'[t].pc = "done" /\ task'[t].kind = "BackendNotFoundError"
                    /\ tools' = tools]_vars

C14_Witness ==
    \E t \in Tasks :
        /\ task[t].op = "refresh_backend" /\ Finished(t)
        /\ task[t].kind = "BackendNotFoundError"
        /\ task[t].name \notin DOMAIN connections
        /\ DOMAIN connections # {}
        /\ tools # {}

\* the CallRecord held by a row of tool_calls: every column but the link to tools
CallRecordOf(row) == [f \in (DOMAIN row) \ {"tool_id"} |-> row[f]]

\* C19: no step deletes or changes a CallRecord: the history after a step is the
\* history before it, possibly with records appended.
C19_HistoryIsAppendOnly ==
    [][/\ Len(calls') >= Len(calls)
       /\ \A i \in DOMAIN calls : CallRecordOf(calls'[i]) = CallRecordOf(calls[i])]_vars

\* a refresh has deleted the tool a recorded call refers to
C19_Witness ==
    \E i \in DOMAIN calls : calls[i].tool_id = None

\* the step in which the connect() awaited by the add_backend of task t ends
ConnectEnds(t) ==
    /\ Moves(t)
    /\ task'[t].op = "add_backend"
    /\ task[t].pc \in {"idle", "done", "add_ping"}
    /\ task'[t].pc # "add_ping"

\* the step in which a connect() awaited by initialize() ends
InitConnectEnds == main.pc \in {"init_next", "init_ping"} /\ Len(log') = Len(log) + 1

\* C20: connect() ends either with BackendConnectionError and is_connected = FALSE,
\* or normally with is_connected = TRUE; it fails when the backend has no url, and
\* it ends normally only from the ping.
C20_ConnectFailsClosed ==
    [][/\ \A t \in Tasks :
            ConnectEnds(t) =>
                LET c == task'[t].conn
                    failed == task'[t].pc = "done" /\ task'[t].kind = "BackendConnectionError"
                IN /\ failed <=> ~conns'[c].client
                   /\ (conns'[c].backend.url = None \/ conns'[c].backend.url = "") => failed
                   /\ ~failed => (task[t].pc = "add_ping" /\ task'[t].pc = "add_list")
       /\ InitConnectEnds =>
                LET c == IF main.pc = "init_ping" THEN main.conn ELSE NextConn
                    failed == log'[Len(log')][1] = "failed"
                IN /\ failed <=> ~conns'[c].client
                   /\ (conns'[c].backend.url = None \/ conns'[c].backend.url = "") => failed
                   /\ ~failed => main.pc = "init_ping"]_vars

\* one connect() has failed for want of a url, one on its ping, one has succeeded
C20_Witness ==
    \E c1, c2, c3 \in DOMAIN conns :
        /\ conns[c1].backend.url = None /\ ~conns[c1].client
        /\ conns[c2].backend.url # None /\ ~conns[c2].client /\ c2 \notin Range(connections)
        /\ \A t \in Tasks : task[t].op = "add_backend" => task[t].conn # c3
        /\ conns[c3].client
        /\ \E t \in Tasks : task[t].op = "add_backend" /\ Finished(t) /\ task[t].conn = c2

\* task t has handled a request received by the dispatcher
Dispatched(t) == Finished(t) /\ "request" \in DOMAIN task[t]

\* C15: every request handled by the dispatcher ends with a JSON-RPC response, and
\* when the handling failed below the dispatcher the response is the error -32603
\* with HTTP status 500 and the message of the exception.
C15_NoExceptionEscapes ==
    \A t \in Tasks :
        Dispatched(t) =>
            LET r == task[t].response
            IN /\ "status" \in DOMAIN r
               /\ task[t].kind # "ok" =>
                    /\ "error" \in DOMAIN r
                    /\ r.status = 500
                    /\ r.error.code = -32603
                    /\ r.error.message = Str(task[t], task[t].kind)

\* the step in which task t receives a request
Receives(t) == Moves(t) /\ Free(t) /\ "request" \in DOMAIN task'[t]

\* the method of a request whose body is a JSON object
MethodOf(request) == Get(request.body.obj, "method", "")

\* C16: a request with a JSON object for body whose method is none of initialize,
\* ping, tools/list, tools/call is answered at once with the error -32601, HTTP
\* status 400, a message that holds the method and the id of the request; the
\* connection map, the tool catalog and the call history stay as they were.
C16_UnknownMethodIsRejected ==
    [][\A t \in Tasks :
        (/\ Receives(t)
         /\ task'[t].request.body.json = "object"
         /\ MethodOf(task'[t].request) \notin KnownMethods) =>
            LET r == task'[t].response
            IN /\ task'[t].pc = "done"
               /\ "error" \in DOMAIN r
               /\ r.error.code = -32601
               /\ r.status = 400
               /\ \E i \in DOMAIN r.error.message :
                    r.error.message[i] = MethodOf(task'[t].request)
               /\ r.id = Get(task'[t].request.body.obj, "id", None)
               /\ <<connections', conns', tools', calls'>> = <<connections, conns, tools, calls>>]_vars

C16_Witness ==
    \E t \in Tasks :
        /\ Dispatched(t)
        /\ task[t].request.endpoint = "mount"
        /\ task[t].request.body.json = "object"
        /\ MethodOf(task[t].request) = "resources/list"
        /\ "error" \in DOMAIN task[t].response
        /\ task[t].response.id \in RequestIds
        /\ DOMAIN connections # {}

\* the backends a mount endpoint may serve: enabled, mount-enabled, of that prefix
Mounted(prefix) ==
    {b \in BackendIds :
        /\ backends[b].enabled
        /\ backends[b].mount_enabled
        /\ effective_prefix(backends[b]) = prefix}

\* the step in which task t receives a tools/list on the mount endpoint
ReceivesMountList(t) ==
    /\ Receives(t)
    /\ task'[t].request.endpoint = "mount"
    /\ task'[t].request.body.json = "object"
    /\ MethodOf(task'[t].request) = "tools/list"

\* C17: tools/list on the mount endpoint of prefix p answers with a result, never an
\* error: the empty list when no backend is enabled, mount-enabled and of effective
\* prefix p, and otherwise the bare names of exactly the catalog tools of one such
\* backend.
C17_MountListsOneBackend ==
    [][\A t \in Tasks :
        ReceivesMountList(t) =>
            LET r == task'[t].response
                p == task'[t].request.prefix
            IN /\ "result" \in DOMAIN r
               /\ r.status = 200
               /\ Mounted(p) = {} => r.result.tools = {}
               /\ Mounted(p) # {} =>
                    \E b \in Mounted(p) :
                        r.result.tools = {tl.name : tl \in {u \in tools : u.backend_id = b}}]_vars

\* a mount that lists its backend's tool under the bare name
C17_Witness ==
    \E t \in Tasks :
        /\ Dispatched(t)
        /\ task[t].request.endpoint = "mount"
        /\ task[t].request.body.json = "object"
        /\ MethodOf(task[t].request) = "tools/list"
        /\ task[t].request.prefix = "b"
        /\ backends[2].prefix = None
        /\ task[t].response.result.tools = {"y"}

\* a mount whose only backend of that prefix is switched off answers with no tools
C17_WitnessEmpty ==
    \E t \in Tasks :
        /\ Dispatched(t)
        /\ task[t].request.endpoint = "mount"
        /\ task[t].request.body.json = "object"
        /\ MethodOf(task[t].request) = "tools/list"
        /\ \E b \in BackendIds :
            /\ effective_prefix(backends[b]) = task[t].request.prefix
            /\ ~(backends[b].enabled /\ backends[b].mount_enabled)
        /\ Mounted(task[t].request.prefix) = {}
        /\ task[t].response.result.tools = {}

\* the step in which task t receives, on the mount endpoint, a tools/call that names
\* a tool
ReceivesMountCall(t) ==
    /\ Receives(t)
    /\ task'[t].request.endpoint = "mount"
    /\ task'[t].request.body.json = "object"
    /\ MethodOf(task'[t].request) = "tools/call"
    /\ task'[t].request.body.obj.params.json = "object"
    /\ "name" \in DOMAIN task'[t].request.body.obj.params.obj

\* the call_tool that the aggregated endpoint starts for the tool p__n
AggregatedCall(rid, p, n, args) ==
    LET a == handle_call_tool(Object([name |-> PrefixedName(p, n), arguments |-> args]))
    IN CallFrame(rid, a[1], a[2])

\* C18: tools/call on the mount endpoint of prefix p with the bare name n enters
\* BackendManager.call_tool with the very locals that tools/call on the aggregated
\* endpoint enters it with for the name p__n: the same prefixed name and arguments,
\* nothing looked up, connected or recorded yet. Every later step of the call reads
\* these locals and the shared state, so result or error, connection and record are
\* those of the aggregated call.
C18_MountCallIsAggregatedCall ==
    [][\A t \in Tasks :
        ReceivesMountCall(t) =>
            LET q == task'[t].request.body.obj.params.obj
                l == AggregatedCall(task'[t].rid, task'[t].request.prefix, q.name, q.arguments)
            IN /\ DOMAIN task'[t] = DOMAIN l \cup {"request", "response"}
               /\ \A f \in DOMAIN l : task'[t][f] = l[f]
               /\ <<connections', conns', tools', calls'>> = <<connections, conns, tools, calls>>]_vars

\* a call through the mount of b that ran the tool b__y and was recorded
C18_Witness ==
    \E t \in Tasks :
        /\ Dispatched(t)
        /\ task[t].request.endpoint = "mount"
        /\ task[t].request.prefix = "b"
        /\ IsCall(t)
        /\ task[t].kind = "ok"
        /\ task[t].prefixed_name = "b__y"
        /\ \E i \in RowsOf(t) : calls[i].success /\ calls[i].tool_name = "y"

\* the step in which task t calls the method op of a connection
Invokes(t, op) == Free(t) /\ task'[t].rid # task[t].rid /\ task'[t].op = op

\* C21: list_tools() and call_tool() called on a connection that is not connected
\* raise BackendConnectionError at once, without entering the transport and without
\* changing the connection; a connection is not connected when constructed and after
\* a failed connect(); disconnect() always leaves it not connected and changes
\* nothing when it was not connected already.
C21_NotConnectedFailsWithoutIO ==
    [][/\ \A t \in Tasks :
            /\ (Invokes(t, "list_tools") \/ Invokes(t, "call_tool")) =>
                LET c == task'[t].conn
                IN ~conns[c].client =>
                    /\ task'[t].pc = "done"
                    /\ task'[t].kind = "BackendConnectionError"
                    /\ ~task'[t].io
                    /\ conns' = conns
            /\ Invokes(t, "disconnect") =>
                /\ task'[t].pc = "done" /\ task'[t].kind = "ok"
                /\ ~conns'[task'[t].conn].client
                /\ ~conns[task'[t].conn].client => conns' = conns
            /\ (/\ task[t].op = "connect"
                /\ Moves(t)
                /\ task'[t].kind = "BackendConnectionError"
                /\ task'[t].conn = task[t].conn) =>
                    ~conns'[task'[t].conn].client
       /\ \A c \in DOMAIN conns' \ DOMAIN conns : ~conns'[c].client]_vars

\* a call_tool refused on a connection that can connect, after its disconnect()
C21_Witness ==
    \E t, u \in Tasks :
        /\ task[u].op = "disconnect" /\ task[u].pc = "done"
        /\ task[t].op = "call_tool" /\ task[t].pc = "done"
        /\ task[t].conn = task[u].conn
        /\ task[t].rid > task[u].rid
        /\ task[u].rid > 1
        /\ ~Falsy(conns[task[t].conn].backend.url)
        /\ task[t].kind = "BackendConnectionError"
        /\ ~task[t].io

\* the tool that a prefixed name resolves to, as a set of rows
Resolved(pn) == {tl \in tools : tl.prefixed_name = pn}

\* C22: a call_tool that reaches a connection runs on the connection registered
\* under the name of the backend owning the resolved tool, with the tool's
\* unprefixed name and the caller's arguments; when the upstream returns, call_tool
\* returns that result, when the upstream raises, call_tool raises ToolCallError; the
\* row recorded carries that backend name and the unprefixed tool name.
C22_RoutesToOwnerAndWraps ==
    [][\A t \in Tasks :
        /\ (Leaves(t, "call_lookup") /\ task'[t].pc = "call_check") =>
            \E tl \in Resolved(task[t].prefixed_name) :
                /\ task'[t].backend_name = One(get_by_id(tl.backend_id)).name
                /\ task'[t].original_tool_name = tl.name
                /\ task'[t].arguments = task[t].arguments
        /\ (Leaves(t, "call_check") /\ task'[t].conn # None) =>
            /\ task'[t].conn = connections[task[t].backend_name]
            /\ task'[t].pc = "call_inflight" =>
                /\ task'[t].original_tool_name = task[t].original_tool_name
                /\ task'[t].arguments = task[t].arguments
        /\ Leaves(t, "call_inflight") =>
            /\ task'[t].exc = None => task'[t].kind = "ok" /\ task'[t].result \in Results
            /\ task'[t].exc = "ToolCallError" => task'[t].kind = "ToolCallError"
            /\ \A i \in DOMAIN calls' \ DOMAIN calls :
                /\ calls'[i].backend_name = task[t].backend_name
                /\ calls'[i].tool_name = task[t].original_tool_name]_vars

\* task t is, or has just been, inside the enable route
Enabling(l) == "route" \in DOMAIN l

\* the row of the backend named name
Row(name) == One(get_by_name(name))

\* that row's enabled column after the step
EnabledAfter(name) == \E b \in BackendIds : backends'[b].name = name /\ backends'[b].enabled

Filtered(t) ==
    {i \in DOMAIN calls :
        task[t].backend_name = None \/ calls[i].backend_name = task[t].backend_name}

Reports(t, op) == task[t].pc = "done" /\ task[t].op = op

\* v stands at index k (from 0) of the ascending order of the latencies of rows I
StandsAt(I, k, v) ==
    /\ Cardinality({i \in I : calls[i].latency_ms < v}) <= k
    /\ k < Cardinality({i \in I : calls[i].latency_ms <= v})

Reported(r, p) ==
    IF p = 50 THEN r.p50_latency_ms ELSE IF p = 95 THEN r.p95_latency_ms ELSE r.p99_latency_ms

\* C24: over N >= 1 rows the percentile p in {50, 95, 99} reported is the latency at
\* index min(floor(N * p / 100), N - 1) of the ascending order of the latencies;
\* over no rows it is null.
C24_PercentileIsIndexed ==
    \A t \in Tasks :
        Reports(t, "get_stats_with_percentiles") =>
            LET N == Cardinality(Filtered(t))
            IN \A p \in {50, 95, 99} :
                LET k == IF (N * p) \div 100 < N - 1 THEN (N * p) \div 100 ELSE N - 1
                    reported == Reported(task[t].percentiles, p)
                IN IF N = 0 THEN reported = {}
                   ELSE /\ Cardinality(reported) = 1
                        /\ \A v \in reported : StandsAt(Filtered(t), k, v)

\* the latencies 10, 20, 30, 40, 50, stored in another order: p50 is 30, p95 is 50
C24_Witness ==
    \E t \in Tasks :
        /\ Reports(t, "get_stats_with_percentiles")
        /\ Filtered(t) = 1..5
        /\ {calls[i].latency_ms : i \in 1..5} = {10, 20, 30, 40, 50}
        /\ calls[1].latency_ms = 40 /\ calls[2].latency_ms = 10
        /\ task[t].percentiles.p50_latency_ms = {30}
        /\ task[t].percentiles.p95_latency_ms = {50}

\* the successful calls among the rows I
Successes(I) == {i \in I : calls[i].success}

\* C26: a report over a set of rows has total_calls = the number of rows,
\* success_count + error_count = total_calls and success_rate = success_count /
\* total_calls with success_count the number of successful rows; over no rows
\* total_calls, success_count, error_count, success_rate and the average, least and
\* greatest latency are all zero.
C26_BasicStatsAddUp ==
    \A t \in Tasks :
        (Reports(t, "get_stats") \/ Reports(t, "get_stats_with_percentiles")) =>
            LET r == task[t].stats
                N == Cardinality(Filtered(t))
            IN /\ r.total_calls = N
               /\ r.success_count + r.error_count = r.total_calls
               /\ r.success_count = Cardinality(Successes(Filtered(t)))
               /\ N > 0 =>
                    /\ r.success_rate.den > 0
                    /\ r.success_rate.num * r.total_calls = r.success_count * r.success_rate.den
               /\ N = 0 =>
                    /\ r.success_count = 0 /\ r.error_count = 0
                    /\ r.success_rate.num = 0 /\ r.success_rate.den > 0
                    /\ r.avg_latency_ms.num = 0 /\ r.avg_latency_ms.den > 0
                    /\ r.min_latency_ms = 0 /\ r.max_latency_ms = 0

\* three successes and one failure: the rate is 75 / 100
C26_Witness ==
    \E t \in Tasks :
        /\ Reports(t, "get_stats")
        /\ Filtered(t) = 1..4
        /\ Cardinality(Successes(1..4)) = 3
        /\ task[t].stats.error_count = 1
        /\ task[t].stats.success_rate.num * 100 = 75 * task[t].stats.success_rate.den

\* C25: a timeseries request without granularity gets it from the length of the
\* period: at most 2 hours gives "minute", longer and at most 7 days gives "hour",
\* anything else gives "day".
C25_GranularityFollowsLength ==
    \A t \in Tasks :
        (Reports(t, "get_timeseries") /\ task[t].requested = None /\ task[t].since # {}) =>
            \A minutes \in task[t].since :
                task[t].granularity =
                    IF minutes <= 2 * 60 THEN "minute"
                    ELSE IF minutes <= 7 * 24 * 60 THEN "hour"
                    ELSE "day"

\* C27: an add_backend whose connect() succeeded and whose list_tools or catalog
\* refresh then fails raises, and the failing step changes neither the tool catalog
\* nor the connection map nor any connection: the connection registered at line 87
\* stays registered and connected.
C27_FailedAddStaysRegistered ==
    [][\A t \in Tasks :
        (Leaves(t, "add_list") /\ task'[t].kind # "ok") =>
            /\ task'[t].pc = "done"
            /\ tools' = tools
            /\ connections' = connections
            /\ conns' = conns
            /\ \A n \in DOMAIN connections :
                connections[n] = task[t].conn =>
                    /\ n \in DOMAIN connections'
                    /\ connections'[n] = task[t].conn
                    /\ conns'[task[t].conn].client]_vars

\* an add_backend that failed and left its connection in the map, connected
C27_Witness ==
    \E t \in Tasks :
        /\ task[t].op = "add_backend" /\ task[t].pc = "done"
        /\ task[t].kind \in {"UpstreamError", "IntegrityError"}
        /\ \E n \in DOMAIN connections :
            connections[n] = task[t].conn /\ conns[task[t].conn].client

\* a connected connection object that no map entry and no connect() in progress holds
Orphaned(c) == conns[c].client /\ c \notin Connecting /\ c \notin Range(connections)

\* C28: the connection map holds one connection object per name; a step that stores
\* a connection under a name already registered replaces the entry by the new,
\* connected object and leaves the object it replaces connected, and a connected
\* object that the map no longer holds is never disconnected afterwards.
C28_ReplacedConnectionIsLeaked ==
    [][/\ \A n \in DOMAIN connections' : connections'[n] \in DOMAIN conns'
       /\ \A n \in DOMAIN connections \cap DOMAIN connections' :
            connections'[n] # connections[n] =>
                /\ connections[n] \in DOMAIN conns
                /\ connections'[n] \in Connecting
                /\ conns'[connections'[n]].client
                /\ conns'[connections[n]] = conns[connections[n]]
       /\ \A c \in DOMAIN conns :
            Orphaned(c) => conns'[c].client /\ c \notin Range(connections')]_vars

\* two connected objects of one backend: the one in the map and the one it replaced
C28_Witness ==
    \E c \in DOMAIN conns, n \in DOMAIN connections :
        /\ Orphaned(c)
        /\ conns[c].backend.name = n
        /\ connections[n] # c
        /\ conns[connections[n]].client

\* the step that is shutdown()
ShutsDown == main.pc # "stopped" /\ main'.pc = "stopped"

\* what manager.list_tools() / the aggregated tools/list would return after the step
ListedAfter == {tl.prefixed_name : tl \in tools'}

\* C29: remove_backend(name) and shutdown() leave the tool catalog, the backends
\* table and the call history as they were, so the tools of the backend are still
\* listed; a call_tool that then finds the backend of its tool absent from the
\* connection map raises BackendNotFoundError and appends nothing to the history.
C29_RemoveTouchesOnlyTheMap ==
    [][/\ (ShutsDown \/ \E t \in Tasks : Removes(t)) =>
            /\ tools' = tools
            /\ backends' = backends
            /\ calls' = calls
            /\ ListedAfter = handle_list_tools.tools
       /\ \A t \in Tasks :
            (Leaves(t, "call_check") /\ task[t].backend_name \notin DOMAIN connections) =>
                /\ task'[t].pc = "done"
                /\ task'[t].kind = "BackendNotFoundError"
                /\ calls' = calls]_vars

\* backend n was connected at startup and removed; its tool is still in the catalog
\* and the call of it failed with BackendNotFoundError, nothing recorded
C29_Witness ==
    \E t, u \in Tasks :
        /\ task[u].op = "remove_backend" /\ task[u].pc = "done"
        /\ task[t].op = "call_tool" /\ task[t].pc = "done"
        /\ task[t].kind = "BackendNotFoundError"
        /\ task[t].backend_name = task[u].name
        /\ task[u].name \notin DOMAIN connections
        /\ \E i \in DOMAIN log : log[i] = <<"connected", task[u].name>>
        /\ \E tl \in tools : One(get_by_id(tl.backend_id)).name = task[u].name
        /\ calls = <<>>

\* the tool row that call_tool resolved is no longer in the catalog
ToolRowGone(l) == l.tool_id # None /\ \A tl \in tools : tl.id # l.tool_id

\* the step in which the call_tool of task t runs its finalizer
Finalizes(t) ==
    /\ task[t].op = "call_tool"
    /\ task[t].pc \in {"call_check", "call_inflight"}
    /\ Moves(t)
    /\ task'[t].conn # None

\* C30: when the insert of the finalizer is rejected because the tool row it refers
\* to has been replaced, nothing is appended to the history and call_tool raises the
\* persistence error, whether the upstream returned a result or raised.
C30_FailedRecordReplacesOutcome ==
    [][\A t \in Tasks :
        (Finalizes(t) /\ task'[t].pc = "done" /\ ToolRowGone(task[t])) =>
            /\ calls' = calls
            /\ \A i \in DOMAIN calls' : calls'[i].request_id # task[t].rid
            /\ task'[t].kind = "IntegrityError"]_vars

\* the upstream returned a result, the insert failed: IntegrityError, no row
C30_Witness ==
    \E t \in Tasks :
        /\ IsCall(t) /\ Finished(t)
        /\ task[t].conn # None
        /\ task[t].exc = None
        /\ task[t].result \in Results
        /\ task[t].kind = "IntegrityError"
        /\ RowsOf(t) = {}
====
